---------------------------- MODULE Spec2Model ----------------------------
(***************************************************************************)
(* State-machine model of the tree state hook of react-hyper-tree          *)
(* (src/helpers/hooks.ts, useTreeState): the Node graph held by a          *)
(* TreeView, the mutation handlers the hook returns, the asynchronous      *)
(* setOpen with its lazy getChildren fetch, the path helpers and the       *)
(* drag-and-drop handlers.                                                 *)
(*                                                                         *)
(* A Node is identified by its id (ids are unique within a tree).  The     *)
(* classes TreeNode and TreeView (./node) are not part of the sources at   *)
(* hand; their methods are modelled from the design document (sections     *)
(* 4.1 and 4.2) and are marked as such where they are defined.             *)
(***************************************************************************)
EXTENDS Integers, Sequences, FiniteSets, Bags, TLC

\* ------------------------------------------------------------------------
\* The raw dataset.  Roots a and d; b is the child record of a, c of b;
\* d has no children.  f is a record or Node the application adds later
\* (setRawChildren / setChildren / setSiblings).
\* A record in `lazy` carries a getChildren capability instead of a static
\* children field.
\* ------------------------------------------------------------------------
Nodes == {"a", "b", "c", "d", "f"}

NoNode == "none"

\* An id that no Node of the tree carries.
MissingId == "z"

DataRoots == <<"a", "d">>

\* The children records of a record (static field or what getChildren yields).
RecKids(n) ==
  CASE n = "a" -> <<"b">>
    [] n = "b" -> <<"c">>
    [] OTHER   -> <<>>

\* Records that may carry getChildren.
MayBeLazy == {"a", "b"}

\* Bounds of the model.
MaxInFlight == 2
MaxIndicators == 2
MaxEdits == 2

VARIABLES
  lazy,          \* records with a getChildren capability (node.data.getChildren)
  opened,        \* node.options.opened
  selected,      \* node.options.selected
  loading,       \* node.options.loading
  dragContainer, \* node.options.dropContainer: "none" (false) | "before" | "children" | "after"
  parent,        \* node.options.parent
  root,          \* node.options.root
  leaf,          \* node.options.leaf
  children,      \* node.children
  data,          \* node.data payload (version of the record)
  enhancedData,  \* treeView.enhancedData: the root Nodes
  idIndex,       \* ids getNodeById resolves
  flattenedView, \* the derived flattened sequence of visible Nodes
  multipleSelect,\* the hook's multipleSelect option
  dropNodeId,    \* useState dropNodeId (NoNode for null)
  dropType,      \* useState dropType ("none" for false)
  isDragging,    \* useState isDragging
  pending,       \* bag of the getChildren calls in flight
  errors,        \* Nodes whose fetch failure was passed to console.error
  thrown,        \* a handler raised (TypeError) in the last operation
  pathSegs,      \* segments of the running setOpenByPath
  segState,      \* per segment: "waiting" | "fetching" | "done"
  pathMode,      \* "idle" | "open" | "select" | "selectAll"
  pathFull,      \* the path given to setSelectedByPath
  pathSelected,  \* setSelectedByPath has issued its setSelected calls
  pathFailed,    \* a fetch of the running path helper failed
  pathSnap,      \* the Nodes that were opened when the path helper was called
  edits,         \* calls of the structural handlers so far (bounded)
  localData,     \* useState localData: the dataset the graph was built from
  lastOp         \* the operation performed by the last step

treeVars == <<opened, selected, loading, dragContainer, parent, root, leaf,
              children, data, enhancedData, idIndex, flattenedView>>
dragVars == <<dropNodeId, dropType, isDragging>>
fetchVars == <<pending, errors>>
pathVars == <<pathSegs, segState, pathMode, pathFull, pathSelected, pathFailed,
              pathSnap>>
vars == <<lazy, localData, treeVars, multipleSelect, dragVars, fetchVars, thrown,
          pathVars, edits, lastOp>>

\* ------------------------------------------------------------------------
\* The tree as one value: handlers are functions from tree to tree.
\* ------------------------------------------------------------------------
Tree ==
  [opened |-> opened, selected |-> selected, loading |-> loading,
   dragContainer |-> dragContainer, parent |-> parent, root |-> root,
   leaf |-> leaf, children |-> children, data |-> data,
   enhancedData |-> enhancedData, idIndex |-> idIndex,
   flattenedView |-> flattenedView]

Put(t) ==
  /\ opened' = t.opened
  /\ selected' = t.selected
  /\ loading' = t.loading
  /\ dragContainer' = t.dragContainer
  /\ parent' = t.parent
  /\ root' = t.root
  /\ leaf' = t.leaf
  /\ children' = t.children
  /\ data' = t.data
  /\ enhancedData' = t.enhancedData
  /\ idIndex' = t.idIndex
  /\ flattenedView' = t.flattenedView

\* Sequence helpers.
Range(s) == {s[i] : i \in DOMAIN s}

RECURSIVE Without(_, _)
Without(s, x) ==
  IF s = <<>> THEN <<>>
  ELSE IF Head(s) = x THEN Without(Tail(s), x)
       ELSE <<Head(s)>> \o Without(Tail(s), x)

\* Array.prototype.findIndex, 1-based; 0 when absent (-1 in the source).
RECURSIVE FindIndexFrom(_, _, _)
FindIndexFrom(s, x, i) ==
  IF i > Len(s) THEN 0
  ELSE IF s[i] = x THEN i ELSE FindIndexFrom(s, x, i + 1)

FindIndex(s, x) == FindIndexFrom(s, x, 1)

\* Array.prototype.splice(start, 0, ...items) with a 0-based start.
Splice(s, start, items) ==
  SubSeq(s, 1, start) \o items \o SubSeq(s, start + 1, Len(s))

Count(s, x) == Cardinality({i \in DOMAIN s : s[i] = x})

\* ------------------------------------------------------------------------
\* TreeView (modelled from the design document, section 4.2)
\* ------------------------------------------------------------------------

\* Nodes reachable from a sequence of Nodes through children.
RECURSIVE ReachFrom(_, _, _)
ReachFrom(ch, frontier, seen) ==
  IF frontier \subseteq seen THEN seen
  ELSE LET new == frontier \ seen
       IN ReachFrom(ch, UNION {Range(ch[n]) : n \in new}, seen \cup new)

Reachable(t) == ReachFrom(t.children, Range(t.enhancedData), {})

\* Pre-order flattening: a Node, then its children when it is opened.
RECURSIVE FlattenSeq(_, _, _)
FlattenSeq(t, s, fuel) ==
  IF s = <<>> \/ fuel = 0 THEN <<>>
  ELSE LET n == Head(s)
       IN <<n>>
          \o (IF t.opened[n] THEN FlattenSeq(t, t.children[n], fuel - 1) ELSE <<>>)
          \o FlattenSeq(t, Tail(s), fuel)

Flatten(t) == FlattenSeq(t, t.enhancedData, Cardinality(Nodes))

\* treeView.enhanceNodes(rebuildIndex)
enhanceNodes(t, rebuildIndex) ==
  [t EXCEPT !.flattenedView = Flatten(t),
            !.idIndex = IF rebuildIndex THEN Reachable(t) ELSE @]

\* treeView.getNodeById(id): the Node, or NoNode.
getNodeById(t, id) == IF id \in t.idIndex THEN id ELSE NoNode

\* treeView.unselectAll(): clears selected on the full graph.
unselectAll(t) ==
  LET g == Reachable(t)
  IN [t EXCEPT !.selected = [n \in Nodes |-> IF n \in g THEN FALSE ELSE @[n]]]

\* The records wrapped when `recs` are wrapped: the records and, recursively,
\* their static children.
RECURSIVE Wrapped(_, _)
Wrapped(lz, recs) ==
  IF recs = <<>> THEN {}
  ELSE LET n == Head(recs)
       IN {n} \cup (IF n \in lz THEN {} ELSE Wrapped(lz, RecKids(n)))
              \cup Wrapped(lz, Tail(recs))

\* The static parent record of a wrapped record below the wrapped sequence.
RecParent(n) ==
  CASE n = "b" -> "a"
    [] n = "c" -> "b"
    [] OTHER   -> NoNode

\* treeView.staticEnhance(records, parent): fresh Nodes for the records, with
\* default view state and parent linkage; the view is not touched.
staticEnhance(t, lz, recs, par) ==
  LET w == Wrapped(lz, recs)
      top == Range(recs)
  IN [t EXCEPT
        !.opened = [n \in Nodes |-> IF n \in w THEN FALSE ELSE @[n]],
        !.selected = [n \in Nodes |-> IF n \in w THEN FALSE ELSE @[n]],
        !.loading = [n \in Nodes |-> IF n \in w THEN FALSE ELSE @[n]],
        !.dragContainer = [n \in Nodes |-> IF n \in w THEN "none" ELSE @[n]],
        !.parent = [n \in Nodes |->
                      IF n \in top THEN par
                      ELSE IF n \in w THEN RecParent(n) ELSE @[n]],
        !.root = [n \in Nodes |->
                      IF n \in w THEN (n \in top /\ par = NoNode) ELSE @[n]],
        !.children = [n \in Nodes |->
                      IF n \in w
                      THEN (IF n \in lz THEN <<>> ELSE RecKids(n))
                      ELSE @[n]],
        !.leaf = [n \in Nodes |->
                      IF n \in w
                      THEN (n \notin lz /\ RecKids(n) = <<>>)
                      ELSE @[n]],
        !.data = [n \in Nodes |-> IF n \in w THEN "d0" ELSE @[n]]]

\* ------------------------------------------------------------------------
\* TreeNode (modelled from the design document, section 4.1)
\* ------------------------------------------------------------------------

\* node.setNodeChildren(children, type, reset)
setNodeChildren(t, p, kids, type, reset) ==
  LET old == t.children[p]
      new == IF reset THEN kids
             ELSE IF type = "first" THEN kids \o old ELSE old \o kids
  IN [t EXCEPT !.children[p] = new,
               !.leaf[p] = IF new # <<>> THEN FALSE ELSE @]

\* node.removeChild(child)
removeChild(t, p, c) == [t EXCEPT !.children[p] = Without(@, c)]

\* ------------------------------------------------------------------------
\* The handlers of useTreeState, as functions of the tree
\* ------------------------------------------------------------------------

\* A node argument: a TreeNode instance or an id.
ByNode(n) == [kind |-> "node", v |-> n]
ById(i) == [kind |-> "id", v |-> i]

\* `node instanceof TreeNode ? node : treeView.getNodeById(node)`
Resolve(t, ref) == IF ref.kind = "node" THEN ref.v ELSE getNodeById(t, ref.v)

setLoading(t, ref, val) ==
  LET n == Resolve(t, ref)
  IN IF n = NoNode THEN t ELSE [t EXCEPT !.loading[n] = val]

\* The guard of setSelected that clears the selection first.
ClearsSelectionMutant(ms, sel) == FALSE

ClearsSelection(ms, sel) == ~ms /\ sel

setSelected(t, ms, ref, sel) ==
  LET t1 == IF ClearsSelection(ms, sel) THEN unselectAll(t) ELSE t
      n == Resolve(t1, ref)
  IN IF n = NoNode THEN t1 ELSE [t1 EXCEPT !.selected[n] = sel]

setDragContainer(t, ref, val) ==
  LET n == Resolve(t, ref)
  IN IF n = NoNode THEN t ELSE [t EXCEPT !.dragContainer[n] = val]

setChildren(t, ref, kids, type, reset) ==
  LET p == Resolve(t, ref)
  IN IF p = NoNode THEN t
     ELSE enhanceNodes(setNodeChildren(t, p, kids, type, reset), FALSE)

\* The first block of setSiblings: the target has a parent.
setSiblingsInParent(t, target, sibs, type) ==
  IF target # NoNode /\ t.parent[target] # NoNode
  THEN LET p == t.parent[target]
           parentChildren == t.children[p]
           nodeIndex == FindIndex(parentChildren, target)
           startIndex == IF type = "before" THEN nodeIndex - 1 ELSE nodeIndex
       IN IF nodeIndex # 0
          THEN enhanceNodes(
                 setNodeChildren(t, p, Splice(parentChildren, startIndex, sibs),
                                 "first", TRUE), TRUE)
          ELSE t
  ELSE t

\* The second block of setSiblings: the target is flagged as a root.
setSiblingsInRoots(t, target, sibs, type) ==
  IF target # NoNode /\ t.root[target]
  THEN LET nodeIndex == FindIndex(t.enhancedData, target)
           startIndex == IF type = "before" THEN nodeIndex - 1 ELSE nodeIndex
           s == Range(sibs)
       IN IF nodeIndex # 0
          THEN enhanceNodes(
                 [t EXCEPT
                    !.parent = [n \in Nodes |-> IF n \in s THEN NoNode ELSE @[n]],
                    !.root = [n \in Nodes |-> IF n \in s THEN TRUE ELSE @[n]],
                    !.leaf = [n \in Nodes |-> IF n \in s THEN FALSE ELSE @[n]],
                    !.enhancedData = Splice(@, startIndex, sibs)], TRUE)
          ELSE t
  ELSE t

setSiblings(t, ref, sibs, type) ==
  LET target == Resolve(t, ref)
  IN setSiblingsInRoots(setSiblingsInParent(t, target, sibs, type),
                        target, sibs, type)

setRawChildren(t, lz, ref, recs, type, reset) ==
  LET p == Resolve(t, ref)
  IN IF p = NoNode THEN t
     ELSE setChildren(staticEnhance(t, lz, recs, p), ref, recs, type, reset)

setNodeData(t, ref, d) ==
  LET n == Resolve(t, ref)
  IN IF n = NoNode THEN t
     ELSE enhanceNodes([t EXCEPT !.data[n] = d], FALSE)

\* ------------------------------------------------------------------------
\* Initial state: the TreeView built from the raw dataset
\* ------------------------------------------------------------------------

\* A getChildren call in flight: the Node it was issued for (currentNode),
\* how setOpen was given the Node ("node": a TreeNode, "id": an id, "path":
\* an id, by setOpenByPath), and whether the Node has since been replaced by
\* a fresh Node of the same id (the call then holds a Node outside the tree).
PendKeys == [node : MayBeLazy, kind : {"node", "id", "path"}, stale : BOOLEAN]


InitTree(lz, defaultOpened) ==
  LET w == Wrapped(lz, DataRoots)
  IN /\ opened = [n \in Nodes |-> n \in w /\ defaultOpened]
     /\ selected = [n \in Nodes |-> FALSE]
     /\ loading = [n \in Nodes |-> FALSE]
     /\ dragContainer = [n \in Nodes |-> "none"]
     /\ parent = [n \in Nodes |-> IF n \in w THEN RecParent(n) ELSE NoNode]
     /\ root = [n \in Nodes |-> n \in Range(DataRoots)]
     /\ leaf = [n \in Nodes |-> n \notin lz /\ RecKids(n) = <<>>]
     /\ children = [n \in Nodes |->
                      IF n \in w /\ n \notin lz THEN RecKids(n) ELSE <<>>]
     /\ data = [n \in Nodes |-> "d0"]
     /\ enhancedData = DataRoots
     /\ idIndex = w
     /\ flattenedView =
          FlattenSeq([opened |-> [n \in Nodes |-> n \in w /\ defaultOpened],
                      children |-> [n \in Nodes |->
                         IF n \in w /\ n \notin lz THEN RecKids(n) ELSE <<>>]],
                     DataRoots, Cardinality(Nodes))

InitRest ==
  /\ multipleSelect \in BOOLEAN
  /\ dropNodeId = NoNode
  /\ dropType = "none"
  /\ isDragging = FALSE
  /\ pending = EmptyBag
  /\ errors = {}
  /\ thrown = FALSE
  /\ pathSegs = <<>>
  /\ segState = <<>>
  /\ pathMode = "idle"
  /\ pathFull = <<>>
  /\ pathSelected = FALSE
  /\ pathFailed = FALSE
  /\ pathSnap = {}
  /\ edits = 0
  /\ localData = <<"A", "a">>
  /\ lastOp = "init"

\* Lazy records with everything closed, or a static dataset with the
\* defaultOpened option off or on.
Init ==
  /\ \E lz \in SUBSET MayBeLazy, defaultOpened \in BOOLEAN :
       /\ (defaultOpened => lz = {})
       /\ lazy = lz
       /\ InitTree(lz, defaultOpened)
  /\ InitRest

\* ------------------------------------------------------------------------
\* setOpen and its getChildren fetch
\* ------------------------------------------------------------------------

\* getChildren calls in flight for the Node n of the tree.
InFlight(n) ==
  CopiesIn([node |-> n, kind |-> "node", stale |-> FALSE], pending)
  + CopiesIn([node |-> n, kind |-> "id", stale |-> FALSE], pending)
  + CopiesIn([node |-> n, kind |-> "path", stale |-> FALSE], pending)

\* The condition under which setOpen fetches instead of toggling.
FetchesMutant(t, n) == n \in lazy

Fetches(t, n) == n \in lazy /\ ~t.opened[n]

\* The else branch of setOpen and the closing forceUpdate.
setOpenToggle(t, n) ==
  enhanceNodes(enhanceNodes([t EXCEPT !.opened[n] = ~@], FALSE), FALSE)

\* setOpen up to its await: setLoading(currentNode, true).
setOpenBegin(t, n) == setLoading(t, ByNode(n), TRUE)

\* The reset argument of setRawChildren(node, asyncData, 'last', true).
FetchResetMutant == FALSE

FetchReset == TRUE

\* setOpen after a successful await, for the call shape k.
setOpenResume(t, k) ==
  LET ref == IF k.kind = "node" THEN ByNode(k.node) ELSE ById(k.node)
      \* A replaced Node is no longer the Node of the tree: what the call
      \* does to the TreeNode it holds does not show in the tree.
      gone == k.stale /\ k.kind = "node"
      t1 == IF gone THEN t ELSE setLoading(t, ref, FALSE)
      t2 == IF k.stale THEN t1 ELSE [t1 EXCEPT !.opened[k.node] = TRUE]
      t3 == IF gone THEN t2
            ELSE setRawChildren(t2, lazy, ref, RecKids(k.node), "last", FetchReset)
  IN enhanceNodes(t3, FALSE)

\* The Nodes replaced by fresh ones when the call of shape k resumes.
Replaced(t, k) ==
  LET ref == IF k.kind = "node" THEN ByNode(k.node) ELSE ById(k.node)
  IN IF (k.stale /\ k.kind = "node") \/ Resolve(t, ref) = NoNode THEN {}
     ELSE Wrapped(lazy, RecKids(k.node)) \cap MayBeLazy

\* pending after the call k has resumed: k is gone, and the calls in flight
\* for replaced Nodes now hold Nodes outside the tree.
Settle(k, repl) ==
  LET p1 == pending (-) SetToBag({k})
      n(j) == IF j.node \in repl
              THEN (IF j.stale
                    THEN CopiesIn(j, p1) + CopiesIn([j EXCEPT !.stale = FALSE], p1)
                    ELSE 0)
              ELSE CopiesIn(j, p1)
  IN [j \in {i \in PendKeys : n(i) > 0} |-> n(j)]

\* getChildren calls in flight that were issued for the id n, including
\* those issued for Nodes since replaced.
Outstanding(n) ==
  InFlight(n)
  + CopiesIn([node |-> n, kind |-> "node", stale |-> TRUE], pending)
  + CopiesIn([node |-> n, kind |-> "id", stale |-> TRUE], pending)
  + CopiesIn([node |-> n, kind |-> "path", stale |-> TRUE], pending)

\* A getChildren call may be issued (bound of the model).
MayFetch(n) == Outstanding(n) < MaxInFlight

\* setOpen(node) called by the application, up to its first await or its end.
SetOpenOp(ref) ==
  LET t == Tree
      n == Resolve(t, ref)
  IN /\ IF n = NoNode
        THEN /\ UNCHANGED <<treeVars, pending>>
             /\ lastOp' = "setOpenMiss"
        ELSE IF Fetches(t, n)
        THEN /\ MayFetch(n)
             /\ Put(setOpenBegin(t, n))
             /\ pending' = pending (+)
                   SetToBag({[node |-> n, kind |-> ref.kind, stale |-> FALSE]})
             /\ lastOp' = "fetchStart"
        ELSE /\ Put(setOpenToggle(t, n))
             /\ UNCHANGED pending
             /\ lastOp' = "toggle"
     /\ thrown' = FALSE
     /\ UNCHANGED <<lazy, localData, edits, multipleSelect, dragVars, errors, pathVars>>

\* A path segment as an id: ids are one character long.
IdOf(seg) == IF Len(seg) = 1 THEN seg[1] ELSE MissingId

\* The segment of the running path helper that awaits the fetch of Node n.
FetchingSeg(n) ==
  CHOOSE i \in DOMAIN segState : segState[i] = "fetching" /\ IdOf(pathSegs[i]) = n

\* The path helper's bookkeeping when the fetch k settles.
PathAfterFetch(k, failed) ==
  IF k.kind = "path"
  THEN /\ segState' = [segState EXCEPT ![FetchingSeg(k.node)] = "done"]
       /\ pathFailed' = (pathFailed \/ failed)
       /\ UNCHANGED <<pathSegs, pathMode, pathFull, pathSelected, pathSnap>>
  ELSE UNCHANGED pathVars

\* getChildren resolves: the rest of the try block and the final forceUpdate.
FetchSuccess(k) ==
  /\ BagIn(k, pending)
  /\ Put(setOpenResume(Tree, k))
  /\ pending' = Settle(k, Replaced(Tree, k))
  /\ PathAfterFetch(k, FALSE)
  /\ lastOp' = (IF k.stale THEN "fetchDoneStale" ELSE "fetchDone")
  /\ thrown' = FALSE
  /\ UNCHANGED <<lazy, localData, edits, multipleSelect, dragVars, errors>>

\* getChildren rejects: the catch block and the final forceUpdate.
FetchFail(k) ==
  /\ BagIn(k, pending)
  /\ Put(enhanceNodes(Tree, FALSE))
  /\ pending' = pending (-) SetToBag({k})
  /\ errors' = errors \cup {k.node}
  /\ PathAfterFetch(k, TRUE)
  /\ lastOp' = (IF k.stale THEN "fetchFailStale" ELSE "fetchFail")
  /\ thrown' = FALSE
  /\ UNCHANGED <<lazy, localData, edits, multipleSelect, dragVars>>

\* ------------------------------------------------------------------------
\* setLoading, setSelected called by the application
\* ------------------------------------------------------------------------

\* Node arguments of the application: a Node of the tree, or any id.
NodeRefs == {ByNode(n) : n \in Reachable(Tree)}
IdRefs == {ById(i) : i \in Nodes \cup {MissingId}}
Refs == NodeRefs \cup IdRefs

\* Node arguments of the handlers that only set a flag or the payload: the
\* Node a, its id, or an id that resolves to nothing.
FlagRefs == {ByNode("a"), ById("a"), ById(MissingId)}

Misses(ref) == Resolve(Tree, ref) = NoNode

SetLoadingOp(ref, val) ==
  /\ Put(setLoading(Tree, ref, val))
  /\ lastOp' = "setLoading"
  /\ thrown' = FALSE
  /\ UNCHANGED <<lazy, localData, edits, multipleSelect, dragVars, fetchVars, pathVars>>

SetSelectedOp(ref, sel) ==
  /\ Put(setSelected(Tree, multipleSelect, ref, sel))
  /\ lastOp' = "setSelected"
  /\ thrown' = FALSE
  /\ UNCHANGED <<lazy, localData, edits, multipleSelect, dragVars, fetchVars, pathVars>>

\* ------------------------------------------------------------------------
\* setOpenByPath and setSelectedByPath
\* ------------------------------------------------------------------------

\* String.prototype.split('/') on a sequence of characters.
RECURSIVE SplitFrom(_, _)
SplitFrom(path, cur) ==
  IF path = <<>> THEN <<cur>>
  ELSE IF Head(path) = "/" THEN <<cur>> \o SplitFrom(Tail(path), <<>>)
       ELSE SplitFrom(Tail(path), Append(cur, Head(path)))

Split(path) == SplitFrom(path, <<>>)

\* Array.prototype.join('/')
RECURSIVE Join(_)
Join(segs) ==
  IF segs = <<>> THEN <<>>
  ELSE IF Len(segs) = 1 THEN segs[1]
       ELSE segs[1] \o <<"/">> \o Join(Tail(segs))

\* Array.prototype.slice(0, -1)
ButLast(segs) == SubSeq(segs, 1, Len(segs) - 1)

\* The paths the application passes.
Paths ==
  { <<"a", "/", "b", "/", "c">>, <<"d", "/", "z">> }

\* `await previousPromise` of the reduce callback for segment i.
PrevResolvedMutant(i) == TRUE

PrevResolved(i) == IF i = 1 THEN TRUE ELSE segState[i - 1] = "done"

\* The promise setOpenByPath awaits: the one the reduce returns.
ReduceResolved == segState[Len(segState)] = "done"

\* setOpenByPath(path) / setSelectedByPath(path, all), up to the first await.
PathStart(path, mode) ==
  /\ pathMode = "idle"
  /\ pathMode' = mode
  /\ pathFull' = path
  /\ pathSegs' = IF mode = "open" THEN Split(path)
                 ELSE Split(Join(ButLast(Split(path))))
  /\ segState' = [i \in DOMAIN pathSegs' |-> "waiting"]
  /\ pathSelected' = FALSE
  /\ pathFailed' = FALSE
  /\ pathSnap' = {n \in Nodes : opened[n]}
  /\ lastOp' = "pathStart"
  /\ thrown' = FALSE
  /\ UNCHANGED <<lazy, localData, edits, treeVars, multipleSelect, dragVars, fetchVars>>

\* The reduce callback of segment i: `await setOpen(currentPath)` up to the
\* await inside setOpen, or to its end.
PathStep(i) ==
  LET t == Tree
      n == Resolve(t, ById(IdOf(pathSegs[i])))
  IN /\ pathMode # "idle"
     /\ i \in DOMAIN segState
     /\ segState[i] = "waiting"
     /\ PrevResolved(i)
     /\ IF n = NoNode
        THEN /\ UNCHANGED <<treeVars, pending>>
             /\ segState' = [segState EXCEPT ![i] = "done"]
             /\ lastOp' = "setOpenMiss"
        ELSE IF Fetches(t, n)
        THEN /\ MayFetch(n)
             /\ Put(setOpenBegin(t, n))
             /\ pending' = pending (+)
                   SetToBag({[node |-> n, kind |-> "path", stale |-> FALSE]})
             /\ segState' = [segState EXCEPT ![i] = "fetching"]
             /\ lastOp' = "fetchStart"
        ELSE /\ Put(setOpenToggle(t, n))
             /\ UNCHANGED pending
             /\ segState' = [segState EXCEPT ![i] = "done"]
             /\ lastOp' = "toggle"
     /\ thrown' = FALSE
     /\ UNCHANGED <<lazy, localData, edits, multipleSelect, dragVars, errors, pathSegs,
                    pathMode, pathFull, pathSelected, pathFailed, pathSnap>>

\* setSelected(seg, true) for each of the segments, in order.
RECURSIVE selectEach(_, _, _)
selectEach(t, ms, segs) ==
  IF segs = <<>> THEN t
  ELSE selectEach(IF Head(segs) # <<>>
                  THEN setSelected(t, ms, ById(IdOf(Head(segs))), TRUE)
                  ELSE t,
                  ms, Tail(segs))

\* The segments setSelectedByPath selects.
SelectedSegs(path, all) ==
  IF all THEN Split(path)
  ELSE <<Split(path)[Len(Split(path))]>>

\* The continuation after `await setOpenByPath(...)`.
PathFinish ==
  /\ pathMode # "idle"
  /\ ReduceResolved
  /\ IF pathMode = "open"
     THEN /\ UNCHANGED <<treeVars, pathSelected>>
          /\ lastOp' = "openByPathDone"
     ELSE /\ Put(selectEach(Tree, multipleSelect,
                            SelectedSegs(pathFull, pathMode = "selectAll")))
          /\ pathSelected' = TRUE
          /\ lastOp' = (IF pathMode = "selectAll" THEN "selectAllByPathDone"
                      ELSE "selectByPathDone")
  /\ pathMode' = "idle"
  /\ thrown' = FALSE
  /\ UNCHANGED <<lazy, localData, edits, multipleSelect, dragVars, fetchVars, pathSegs,
                 segState, pathFull, pathFailed, pathSnap>>

\* ------------------------------------------------------------------------
\* The hook under setOpen, setSelected and the path helpers
\* ------------------------------------------------------------------------
CallSetOpen == \E ref \in Refs : SetOpenOp(ref)
CallSetOpenA == \E ref \in FlagRefs : SetOpenOp(ref)
Resolved == \E k \in PendKeys : FetchSuccess(k)
Rejected == \E k \in PendKeys : FetchFail(k)
CallSetSelected == \E ref \in Refs, sel \in BOOLEAN : SetSelectedOp(ref, sel)
CallSetSelectedA == \E ref \in FlagRefs, sel \in BOOLEAN : SetSelectedOp(ref, sel)
CallByPath ==
  \E path \in Paths, mode \in {"open", "select", "selectAll"} :
    PathStart(path, mode)
NextSegment == \E i \in DOMAIN segState : PathStep(i)

\* The application calls setOpen; fetches settle.
Next ==
  \/ CallSetOpen
  \/ Resolved
  \/ Rejected

Spec == Init /\ [][Next]_vars

\* The application calls setSelected and the path helpers; fetches settle.
NextPath ==
  \/ CallSetSelected
  \/ CallByPath
  \/ NextSegment
  \/ PathFinish
  \/ Resolved
  \/ Rejected

SpecPath == Init /\ [][NextPath]_vars

\* ------------------------------------------------------------------------
\* Structural handlers called by the application
\* ------------------------------------------------------------------------

\* The record the application adds: f, while no Node of the graph carries it.
NewRecords == IF "f" \in Reachable(Tree) THEN {<<>>} ELSE {<<>>, <<"f">>}

InsertTypes == {"first", "last"}
SiblingTypes == {"before", "after"}

\* setChildren(parent, children, type, reset) with the Nodes that
\* treeView.staticEnhance(records, parent) builds.
SetChildrenOp(ref, recs, type, reset) ==
  LET t == Tree
      p == Resolve(t, ref)
  IN /\ Put(IF p = NoNode THEN t
            ELSE setChildren(staticEnhance(t, lazy, recs, p), ref, recs, type, reset))
     /\ lastOp' = "setChildren"
     /\ edits < MaxEdits
     /\ edits' = edits + 1
     /\ thrown' = FALSE
     /\ UNCHANGED <<lazy, localData, multipleSelect, dragVars, fetchVars, pathVars>>

SetRawChildrenOp(ref, recs, type, reset) ==
  /\ Put(setRawChildren(Tree, lazy, ref, recs, type, reset))
  /\ lastOp' = "setRawChildren"
  /\ edits < MaxEdits
  /\ edits' = edits + 1
  /\ thrown' = FALSE
  /\ UNCHANGED <<lazy, localData, multipleSelect, dragVars, fetchVars, pathVars>>

\* setSiblings(node, siblings, type) with the Nodes that
\* treeView.staticEnhance(records, parent of node) builds.
SetSiblingsOp(ref, recs, type) ==
  LET t == Tree
      n == Resolve(t, ref)
  IN /\ Put(IF n = NoNode THEN t
            ELSE setSiblings(staticEnhance(t, lazy, recs, t.parent[n]),
                             ref, recs, type))
     /\ lastOp' = "setSiblings"
     /\ edits < MaxEdits
     /\ edits' = edits + 1
     /\ thrown' = FALSE
     /\ UNCHANGED <<lazy, localData, multipleSelect, dragVars, fetchVars, pathVars>>

Payloads == {"d0", "d1"}

SetNodeDataOp(ref, d) ==
  /\ Put(setNodeData(Tree, ref, d))
  /\ lastOp' = "setNodeData"
  /\ thrown' = FALSE
  /\ UNCHANGED <<lazy, localData, edits, multipleSelect, dragVars, fetchVars, pathVars>>

SetDragContainerOp(ref, val) ==
  /\ Put(setDragContainer(Tree, ref, val))
  /\ lastOp' = "setDragContainer"
  /\ thrown' = FALSE
  /\ UNCHANGED <<lazy, localData, edits, multipleSelect, dragVars, fetchVars, pathVars>>

\* ------------------------------------------------------------------------
\* Drag-and-drop handlers (bound to the rendered Nodes)
\* ------------------------------------------------------------------------
DropTypes == {"before", "children", "after"}

\* The Nodes that are rendered.
Rendered == Range(flattenedView)

HandleDragStart ==
  /\ isDragging' = TRUE
  /\ lastOp' = "dragStart"
  /\ thrown' = FALSE
  /\ UNCHANGED <<lazy, localData, edits, treeVars, multipleSelect, dropNodeId, dropType,
                 fetchVars, pathVars>>

\* Nodes that show a drop indicator.
Indicated(dc) == {n \in Nodes : dc[n] # "none"}

HandleDragEnter(n, type) ==
  /\ Cardinality(Indicated(dragContainer) \cup {n}) <= MaxIndicators
  /\ Put(setDragContainer(Tree, ByNode(n), type))
  /\ dropNodeId' = n
  /\ dropType' = type
  /\ lastOp' = "dragEnter"
  /\ thrown' = FALSE
  /\ UNCHANGED <<lazy, localData, edits, multipleSelect, isDragging, fetchVars, pathVars>>

HandleDragLeave(n) ==
  /\ Put(IF n # dropNodeId THEN setDragContainer(Tree, ByNode(n), "none")
         ELSE Tree)
  /\ lastOp' = "dragLeave"
  /\ thrown' = FALSE
  /\ UNCHANGED <<lazy, localData, edits, multipleSelect, dragVars, fetchVars, pathVars>>

\* The detachment of the source Node from its parent or from the roots.
detach(t, src) ==
  IF t.parent[src] # NoNode
  THEN removeChild(t, t.parent[src], src)
  ELSE [t EXCEPT !.enhancedData = Without(@, src)]

\* The body of handleDrop once a drop target other than the source is set.
\* `raised` tells that targetNode.setNodeChildren was called on a null target.
dropOnto(t, src, target, type) ==
  LET t2 == detach(t, src)
  IN IF type = "children"
     THEN LET t3 == [t2 EXCEPT !.parent[src] = target,
                               !.root[src] = FALSE,
                               !.leaf[src] = TRUE]
          IN IF target = NoNode
             THEN [tree |-> t3, raised |-> TRUE]
             ELSE [tree |-> enhanceNodes(
                              setNodeChildren(t3, target, <<src>>, "last", FALSE),
                              TRUE),
                   raised |-> FALSE]
     ELSE IF type \in SiblingTypes
     THEN [tree |-> setSiblings(t2,
                                IF target = NoNode THEN ById(NoNode)
                                ELSE ByNode(target),
                                <<src>>, type),
           raised |-> FALSE]
     ELSE [tree |-> t2, raised |-> FALSE]

\* `dropNodeId && dropNodeId !== sourceNode.id`
DropActsMutant(id, src) == id # NoNode

DropActs(id, src) == id # NoNode /\ id # src

HandleDrop(src) ==
  LET t1 == IF dropNodeId # NoNode
            THEN setDragContainer(Tree, ById(dropNodeId), "none")
            ELSE Tree
      acts == DropActs(dropNodeId, src)
      target == getNodeById(t1, dropNodeId)
      r == IF acts THEN dropOnto(t1, src, target, dropType)
           ELSE [tree |-> t1, raised |-> FALSE]
  IN /\ edits < MaxEdits
     /\ edits' = edits + 1
     /\ lastOp' = "drop"
     /\ isDragging' = FALSE
     /\ Put(r.tree)
     /\ thrown' = r.raised
     /\ dropNodeId' = IF acts /\ ~r.raised THEN NoNode ELSE dropNodeId
     /\ UNCHANGED <<lazy, localData, multipleSelect, dropType, fetchVars, pathVars>>

\* ------------------------------------------------------------------------
\* The hook under the structural handlers and drag-and-drop
\* ------------------------------------------------------------------------
CallSetChildren ==
  \E ref \in Refs, recs \in NewRecords, type \in InsertTypes, reset \in BOOLEAN :
    SetChildrenOp(ref, recs, type, reset)
CallSetRawChildren ==
  \E ref \in Refs, recs \in NewRecords, type \in InsertTypes, reset \in BOOLEAN :
    SetRawChildrenOp(ref, recs, type, reset)
CallSetSiblings ==
  \E ref \in Refs, recs \in NewRecords, type \in SiblingTypes :
    SetSiblingsOp(ref, recs, type)
CallSetNodeData == \E ref \in FlagRefs, d \in Payloads : SetNodeDataOp(ref, d)
CallSetLoading == \E ref \in FlagRefs, val \in BOOLEAN : SetLoadingOp(ref, val)
CallSetDragContainer ==
  \E ref \in FlagRefs, val \in {"children", "none"} :
    SetDragContainerOp(ref, val)
DragEnter == \E n \in Rendered, type \in DropTypes : HandleDragEnter(n, type)
DragLeave == \E n \in Rendered : HandleDragLeave(n)
Drop == \E src \in Rendered : HandleDrop(src)

\* A static dataset, single selection.
InitMutate ==
  /\ \E defaultOpened \in BOOLEAN :
       /\ lazy = {}
       /\ InitTree({}, defaultOpened)
  /\ InitRest
  /\ ~multipleSelect

NextMutate ==
  \/ CallSetChildren
  \/ CallSetRawChildren
  \/ CallSetSiblings
  \/ CallSetNodeData
  \/ CallSetLoading
  \/ CallSetDragContainer
  \/ CallSetOpenA
  \/ CallSetSelectedA

SpecMutate == InitMutate /\ [][NextMutate]_vars

NextDrag ==
  \/ HandleDragStart
  \/ DragEnter
  \/ DragLeave
  \/ Drop

SpecDrag == InitMutate /\ [][NextDrag]_vars

\* A static dataset with everything closed; the application opens and closes
\* the root a, and the rendered Nodes are entered, left and dropped.
InitClosed ==
  /\ lazy = {}
  /\ InitTree({}, FALSE)
  /\ InitRest
  /\ ~multipleSelect

NextDragOpen ==
  \/ CallSetOpenA
  \/ HandleDragStart
  \/ DragEnter
  \/ DragLeave
  \/ Drop

SpecDragOpen == InitClosed /\ [][NextDragOpen]_vars

\* ------------------------------------------------------------------------
\* The dataset and its content hash (hash-sum), and the rebuild of the graph
\* ------------------------------------------------------------------------

\* The datasets the application passes as `data`: the records a > b > c and
\* d of the tree, d carrying a name; they differ in that name only.
Datasets == {<<"A", "a">>, <<"B", "B">>, <<"A", "b">>}

\* String.prototype.charCodeAt for the characters that occur.
CharCode(c) ==
  CASE c = " " -> 32
    [] c = "," -> 44
    [] c = "0" -> 48
    [] c = "1" -> 49
    [] c = "A" -> 65
    [] c = "B" -> 66
    [] c = "O" -> 79
    [] c = "S" -> 83
    [] c = "[" -> 91
    [] c = "]" -> 93
    [] c = "a" -> 97
    [] c = "b" -> 98
    [] c = "c" -> 99
    [] c = "d" -> 100
    [] c = "e" -> 101
    [] c = "g" -> 103
    [] c = "h" -> 104
    [] c = "i" -> 105
    [] c = "j" -> 106
    [] c = "l" -> 108
    [] c = "m" -> 109
    [] c = "n" -> 110
    [] c = "o" -> 111
    [] c = "r" -> 114
    [] c = "s" -> 115
    [] c = "t" -> 116
    [] c = "y" -> 121

\* Half of the 32 bits of the hash: a 32-bit value is kept as two halves
\* (hi, lo); `top` is set when a value is 2^32.
Half == 65536

\* `hash = ((hash << 5) - hash) + chr; hash |= 0`
FoldChar(h, c) ==
  LET lo1 == h.lo * 31 + c
      hi1 == h.hi * 31 + (lo1 \div Half)
  IN [top |-> 0, hi |-> hi1 % Half, lo |-> lo1 % Half]

RECURSIVE FoldChars(_, _)
FoldChars(h, text) ==
  IF text = <<>> THEN h
  ELSE LET next == FoldChar(h, CharCode(Head(text)))
       IN IF next.top = 0 THEN FoldChars(next, Tail(text)) ELSE next

\* `hash * -2` for a negative 32-bit hash.
NegTwice(h) ==
  LET dlo == (Half - h.lo) % Half
      dhi == Half - 1 - h.hi + (IF h.lo = 0 THEN 1 ELSE 0)
      lo2 == dlo * 2
      hi2 == dhi * 2 + (lo2 \div Half)
  IN [top |-> hi2 \div Half, hi |-> hi2 % Half, lo |-> lo2 % Half]

\* hash-sum fold(hash, text)
fold(h, text) ==
  IF text = <<>> THEN h
  ELSE LET r == FoldChars(h, text)
       IN IF r.hi >= Half \div 2 THEN NegTwice(r) ELSE r

\* Object.prototype.toString.call(value) and typeof value
TagObject == <<"[", "o", "b", "j", "e", "c", "t", " ", "O", "b", "j", "e", "c", "t", "]">>
TagArray == <<"[", "o", "b", "j", "e", "c", "t", " ", "A", "r", "r", "a", "y", "]">>
TagString == <<"[", "o", "b", "j", "e", "c", "t", " ", "S", "t", "r", "i", "n", "g", "]">>
TypeObject == <<"o", "b", "j", "e", "c", "t">>
TypeString == <<"s", "t", "r", "i", "n", "g">>

\* The texts foldValue folds for a string value under a key: the key,
\* toString(value), typeof value, and the value.
StringTexts(key, value) == <<key, TagString, TypeString, value>>

\* String(array.valueOf()) for an array of n records.
RECURSIVE ArrayText(_)
ArrayText(n) ==
  IF n = 0 THEN <<>>
  ELSE IF n = 1 THEN TagObject
       ELSE TagObject \o <<",">> \o ArrayText(n - 1)

\* The key of the i-th element of an array (arrays here hold at most two).
IndexKey(i) == IF i = 1 THEN <<"0">> ELSE <<"1">>

\* The texts foldValue folds for a record under a key: the key, toString and
\* typeof, then its keys in sorted order (children, id, name) by foldObject,
\* then String(record.valueOf()); and those for the elements of an array.
RECURSIVE RecordTexts(_, _, _), ElementTexts(_, _, _)
RecordTexts(key, n, name) ==
  <<key, TagObject, TypeObject>>
  \o (IF RecKids(n) = <<>> THEN <<>>
      ELSE <<<<"c", "h", "i", "l", "d", "r", "e", "n">>, TagArray, TypeObject>>
           \o ElementTexts(RecKids(n), 1, name)
           \o <<ArrayText(Len(RecKids(n)))>>)
  \o StringTexts(<<"i", "d">>, <<n>>)
  \o (IF n = "d" THEN StringTexts(<<"n", "a", "m", "e">>, name) ELSE <<>>)
  \o <<TagObject>>

ElementTexts(recs, i, name) ==
  IF i > Len(recs) THEN <<>>
  ELSE RecordTexts(IndexKey(i), recs[i], name) \o ElementTexts(recs, i + 1, name)

\* The texts folded by foldValue(0, formattedData, '', []) for the dataset
\* whose record d has the given name.
DatasetTexts(name) ==
  <<<<>>, TagArray, TypeObject>>
  \o ElementTexts(DataRoots, 1, name)
  \o <<ArrayText(Len(DataRoots))>>

\* The folds in sequence (the guard has each hash evaluated before the next
\* text is folded).
RECURSIVE FoldTexts(_, _)
FoldTexts(h, texts) ==
  IF texts = <<>> THEN h
  ELSE LET next == fold(h, Head(texts))
       IN IF next.top <= 1 THEN FoldTexts(next, Tail(texts)) ELSE next

\* hash(formattedData)
sum(name) == FoldTexts([top |-> 0, hi |-> 0, lo |-> 0], DatasetTexts(name))

\* new TreeView(id, localData, options): the graph built from the dataset.
NewTreeView(lz, defaultOpened) ==
  LET w == Wrapped(lz, DataRoots)
      t == [opened |-> [n \in Nodes |-> n \in w /\ defaultOpened],
            selected |-> [n \in Nodes |-> FALSE],
            loading |-> [n \in Nodes |-> FALSE],
            dragContainer |-> [n \in Nodes |-> "none"],
            parent |-> [n \in Nodes |-> IF n \in w THEN RecParent(n) ELSE NoNode],
            root |-> [n \in Nodes |-> n \in Range(DataRoots)],
            leaf |-> [n \in Nodes |-> n \notin lz /\ RecKids(n) = <<>>],
            children |-> [n \in Nodes |->
                            IF n \in w /\ n \notin lz THEN RecKids(n) ELSE <<>>],
            data |-> [n \in Nodes |-> "d0"],
            enhancedData |-> DataRoots,
            idIndex |-> w,
            flattenedView |-> <<>>]
  IN [t EXCEPT !.flattenedView = Flatten(t)]

\* The effect on `data` and the useMemo of treeView: a render with the
\* dataset `incoming`.
DataRefresh(incoming) ==
  /\ IF sum(incoming) # sum(localData)
     THEN /\ localData' = incoming
          /\ Put(NewTreeView(lazy, FALSE))
     ELSE UNCHANGED <<localData, treeVars>>
  /\ lastOp' = "refresh"
  /\ thrown' = FALSE
  /\ UNCHANGED <<lazy, edits, multipleSelect, dragVars, fetchVars, pathVars>>

Refresh == \E incoming \in Datasets : DataRefresh(incoming)

\* A static dataset with everything closed; the application sets view state
\* on the root a and re-renders with new datasets.
NextRefresh ==
  \/ Refresh
  \/ CallSetOpenA
  \/ CallSetSelectedA
  \/ CallSetLoading
  \/ CallSetNodeData

SpecRefresh == InitClosed /\ [][NextRefresh]_vars

\* ------------------------------------------------------------------------
\* Properties
\* ------------------------------------------------------------------------

\* C1: over any interleaving of setOpen calls and fetch completions, at most
\* one getChildren fetch is in flight per Node at any time (a second setOpen
\* on a loading Node does not invoke getChildren again).
C1_AtMostOneFetchInFlight == \A n \in Nodes : InFlight(n) <= 1

\* C2: when the only fetch of a Node fails, then once setOpen has completed
\* the Node has loading = false and opened = false, the children are
\* unchanged and the error has been reported.
C2_FailedFetchLeavesNodeClosed ==
  [][\A k \in PendKeys :
       (FetchFail(k) /\ ~k.stale /\ InFlight(k.node) = 1)
         => /\ ~loading'[k.node]
            /\ ~opened'[k.node]
            /\ children' = children
            /\ k.node \in errors']_vars

\* The Nodes of the graph: those reachable from the roots.
Graph == Reachable(Tree)

\* C3: with multipleSelect disabled, after any sequence of setSelected calls
\* (by Node, by id, or issued by setSelectedByPath) at most one Node of the
\* whole graph is selected.
C3_SingleSelect ==
  ~multipleSelect => Cardinality({n \in Graph : selected[n]}) <= 1

\* C3 witness: setSelectedByPath(path, all) has selected every segment in
\* turn, and only the last one is left selected.
C3_Witness ==
  /\ ~multipleSelect
  /\ lastOp = "selectAllByPathDone"
  /\ pathFull = <<"a", "/", "b", "/", "c">>
  /\ selected["c"]
  /\ ~selected["a"]

PathABC == <<"a", "/", "b", "/", "c">>

\* C6: after setOpenByPath("a/b/c") has completed from a tree with a closed,
\* all fetches succeeding, getNodeById("c") is a Node whose parent is b, whose
\* parent's parent is a, and a has no parent.
C6_PathRoundTrip ==
  (/\ lastOp = "openByPathDone"
   /\ pathFull = PathABC
   /\ "a" \notin pathSnap
   /\ ~pathFailed)
    => /\ getNodeById(Tree, "c") = "c"
       /\ parent["c"] = "b"
       /\ parent["b"] = "a"
       /\ parent["a"] = NoNode

\* C7: after setOpenByPath(path) has completed with every fetch succeeding,
\* every Node of the graph addressed by a segment of the path is opened,
\* whatever its opened state was before.
C7_PathOpensSegments ==
  (lastOp = "openByPathDone" /\ ~pathFailed)
    => \A i \in DOMAIN pathSegs :
         IdOf(pathSegs[i]) \in Graph => opened[IdOf(pathSegs[i])]

\* C8: the setOpen of a segment does not start before the setOpen of the
\* segment before it has completed, its awaited fetch included, and
\* setSelectedByPath selects only once the last opened segment has completed.
C8_SegmentsInOrder ==
  /\ \A i \in DOMAIN segState :
       (i > 1 /\ segState[i] # "waiting") => segState[i - 1] = "done"
  /\ pathSelected => \A i \in DOMAIN segState : segState[i] = "done"

\* C8 witness: setSelectedByPath("a/b/c") has selected after the awaited
\* fetch of its last opened segment b.
C8_Witness ==
  /\ lastOp = "selectByPathDone"
  /\ pathFull = PathABC
  /\ lazy = {"b"}
  /\ opened["b"]
  /\ segState = <<"done", "done">>

\* Occurrences of the Node x in the roots and in all children sequences.
Occurrences(t, x) ==
  Count(t.enhancedData, x)
  + Cardinality({p \in Nodes \X (1..Cardinality(Nodes)) :
                   /\ p[2] \in DOMAIN t.children[p[1]]
                   /\ t.children[p[1]][p[2]] = x})

\* C4: a drop leaves the set of Nodes reachable from the roots as it was;
\* the source occurs exactly once in the graph afterwards, and when it moves
\* from a parent A to a different parent B, A loses exactly one child and B
\* gains exactly one.
C4_DropPreservesNodes ==
  [][\A src \in Rendered :
       HandleDrop(src)
         => /\ Graph' = Graph
            /\ Occurrences(Tree', src) = 1
            /\ (/\ parent[src] # NoNode
                /\ parent'[src] # NoNode
                /\ parent'[src] # parent[src])
                 => /\ Len(children'[parent[src]]) = Len(children[parent[src]]) - 1
                    /\ Len(children'[parent'[src]])
                         = Len(children[parent'[src]]) + 1]_vars

\* C5: after every mutation, idIndex holds exactly the ids of the Nodes
\* reachable from the roots.
C5_IndexMatchesGraph == idIndex = Graph

\* A handler called with an id that resolves to no Node.
MissCall ==
  \E ref \in IdRefs :
    /\ Misses(ref)
    /\ \/ \E val \in BOOLEAN : SetLoadingOp(ref, val)
       \/ \E sel \in BOOLEAN : SetSelectedOp(ref, sel)
       \/ \E val \in DropTypes \cup {"none"} : SetDragContainerOp(ref, val)
       \/ \E recs \in NewRecords, type \in InsertTypes, reset \in BOOLEAN :
            \/ SetChildrenOp(ref, recs, type, reset)
            \/ SetRawChildrenOp(ref, recs, type, reset)
       \/ \E recs \in NewRecords, type \in SiblingTypes :
            SetSiblingsOp(ref, recs, type)
       \/ \E d \in Payloads : SetNodeDataOp(ref, d)
       \/ SetOpenOp(ref)

\* C9: a handler called with an id that does not resolve raises nothing and
\* leaves the flags of every Node, the parent/children structure, the roots,
\* idIndex and flattenedView unchanged.
C9_MissIsNoOp == [][MissCall => (UNCHANGED treeVars /\ ~thrown')]_vars

\* C10: every Node of the graph that is not a root has a parent, occurs
\* exactly once in that parent's children and nowhere else; a root occurs in
\* no children; every Node listed in the children of Q has parent Q.
C10_ParentChildrenConsistent ==
  \A n \in Graph :
    /\ Occurrences(Tree, n) = 1
    /\ n \notin Range(enhancedData)
         => /\ parent[n] # NoNode
            /\ n \in Range(children[parent[n]])
    /\ \A q \in Graph : n \in Range(children[q]) => parent[n] = q

\* C11: every Node of the graph has isRoot = true exactly when it has no
\* parent, and isLeaf = true exactly when its children are empty and its
\* record has no getChildren capability.
C11_DerivedFlags ==
  \A n \in Graph :
    /\ root[n] <=> (parent[n] = NoNode)
    /\ leaf[n] <=> (children[n] = <<>> /\ n \notin lazy)

\* C12: after every operation, flattenedView is the pre-order flattening of
\* the current roots under the current opened flags.
C12_ViewIsFresh == flattenedView = Flatten(Tree)

\* The Nodes met by following the parent links from n, at most `fuel` links.
RECURSIVE AncestorsOf(_, _, _)
AncestorsOf(par, n, fuel) ==
  IF par[n] = NoNode \/ fuel = 0 THEN {}
  ELSE {par[n]} \cup AncestorsOf(par, par[n], fuel - 1)

\* C19: after any sequence of drops, no Node is its own ancestor (following
\* the parent links from it ends at a Node without parent) and no Node occurs
\* in its own children.
C19_Acyclic ==
  \A n \in Nodes :
    /\ n \notin AncestorsOf(parent, n, Cardinality(Nodes))
    /\ n \notin Range(children[n])

\* C20: at most one Node shows a drop indicator at any time, and after a
\* drop has completed no Node shows one.
C20_IndicatorIsTransient ==
  /\ Cardinality(Indicated(dragContainer)) <= 1
  /\ lastOp = "drop" => Indicated(dragContainer) = {}

\* C13: setOpen on a closed, not-loading Node with a fetch capability sets
\* loading at the start of the fetch and leaves the Node closed; when the fetch
\* succeeds the Node ends not loading and opened, and its children are exactly
\* the Nodes wrapping the fetched records, in fetch order, in place of the
\* children it had before.
C13_FetchSuccess ==
  [][/\ \A ref \in Refs :
          (/\ SetOpenOp(ref)
           /\ Resolve(Tree, ref) # NoNode
           /\ Fetches(Tree, Resolve(Tree, ref))
           /\ ~loading[Resolve(Tree, ref)])
            => /\ loading'[Resolve(Tree, ref)]
               /\ ~opened'[Resolve(Tree, ref)]
     /\ \A k \in PendKeys :
          (FetchSuccess(k) /\ ~k.stale)
            => /\ ~loading'[k.node]
               /\ opened'[k.node]
               /\ children'[k.node] = RecKids(k.node)
               /\ \A kid \in Range(RecKids(k.node)) :
                    parent'[kid] = k.node /\ ~opened'[kid]]_vars

\* C13 witness: the fetch of a has succeeded a second time, replacing the
\* child b that a had from its first fetch (a call issued for that b is still
\* in flight).
C13_Witness ==
  /\ lastOp = "fetchDone"
  /\ opened["a"]
  /\ ~loading["a"]
  /\ children["a"] = <<"b">>
  /\ BagIn([node |-> "b", kind |-> "node", stale |-> TRUE], pending)

\* C18: a Node with a fetch capability never has loading = true and
\* opened = true at the same time: it is closed, loading or opened.
C18_LoadingExcludesOpened ==
  \A n \in Graph \cap lazy : ~(loading[n] /\ opened[n])

\* C18 witness: a has gone through closed, loading and opened, and its child
\* b is now in the loading state.
C18_Witness ==
  /\ lastOp = "fetchStart"
  /\ opened["a"] /\ ~loading["a"]
  /\ loading["b"] /\ ~opened["b"]
  /\ {"a", "b"} \subseteq lazy

\* The Nodes of the graph addressed by the non-empty segments of a path.
SegmentNodes(path) ==
  {IdOf(Split(path)[i]) : i \in {j \in DOMAIN Split(path) : Split(path)[j] # <<>>}}
    \cap Graph

\* C14: when setSelectedByPath(path, all) completes, with all = true every
\* Node addressed by a non-empty segment is selected; with all = false the
\* Node of the final segment is selected and no other segment Node was
\* selected by the call; every segment but the last went to setOpenByPath.
C14_SelectByPathResult ==
  [][(PathFinish /\ pathMode # "open")
       => /\ pathSegs = ButLast(Split(pathFull))
          /\ pathMode = "selectAll"
               => \A n \in SegmentNodes(pathFull) : selected'[n]
          /\ pathMode = "select"
               => LET last == IdOf(Split(pathFull)[Len(Split(pathFull))])
                  IN /\ last \in Graph => selected'[last]
                     /\ \A n \in SegmentNodes(pathFull) \ {last} :
                          selected'[n] => selected[n]]_vars

\* The sequence `new` is `old` with the Nodes S inserted immediately before
\* (type "before") or immediately after the one occurrence of n.
InsertedAround(old, new, n, S, type) ==
  /\ Count(new, n) = 1
  /\ \E i \in DOMAIN old :
       /\ old[i] = n
       /\ new = IF type = "before"
                THEN SubSeq(old, 1, i - 1) \o S \o SubSeq(old, i, Len(old))
                ELSE SubSeq(old, 1, i) \o S \o SubSeq(old, i + 1, Len(old))

\* setSiblings(n, S, type) took the tree t0 to t1 as claimed: the sibling
\* sequence that contains n (the roots, or the children of a Node) received
\* S next to n, and every other sequence is as before.
SiblingsInserted(t0, t1, n, S, type) ==
  IF n \in Range(t0.enhancedData)
  THEN /\ InsertedAround(t0.enhancedData, t1.enhancedData, n, S, type)
       /\ t1.children = t0.children
  ELSE \A p \in Nodes :
         n \in Range(t0.children[p])
           => /\ InsertedAround(t0.children[p], t1.children[p], n, S, type)
              /\ \A q \in Nodes \ {p} : t1.children[q] = t0.children[q]
              /\ t1.enhancedData = t0.enhancedData

\* The tree on which handleDrop calls setSiblings: the indicator of the
\* target cleared and the source detached.
BeforeSiblings(src) ==
  detach(setDragContainer(Tree, ById(dropNodeId), "none"), src)

\* C15: setSiblings(n, S, position) with a resolved target n inserts the
\* Nodes of S, in order, immediately before (after) n in the sibling sequence
\* that contains n, keeps the other siblings in order and n present once, and
\* leaves all other children sequences unchanged.  Stated for the call
\* setSiblings(targetNode, [sourceNode], dropType) that handleDrop makes.
C15_SiblingsPosition ==
  [][\A src \in Rendered :
       (/\ HandleDrop(src)
        /\ dropNodeId \notin {NoNode, src}
        /\ dropType \in SiblingTypes
        /\ getNodeById(Tree, dropNodeId) # NoNode)
         => SiblingsInserted(BeforeSiblings(src), Tree', dropNodeId,
                             <<src>>, dropType)]_vars

\* C16: a drop whose pending drop target is the source itself, or a drop
\* with no drop target set, leaves the roots, every Node's parent and
\* children, idIndex and flattenedView unchanged.
C16_DropNoOp ==
  [][\A src \in Rendered :
       (HandleDrop(src) /\ (dropNodeId = NoNode \/ dropNodeId = src))
         => UNCHANGED <<enhancedData, parent, children, idIndex,
                        flattenedView>>]_vars

\* C16 witness: the Node a, with its child b rendered below it, has been
\* dropped while it was itself the pending drop target.
C16_Witness ==
  /\ lastOp = "drop"
  /\ dropNodeId = "a"
  /\ ~thrown
  /\ dragContainer["a"] = "none"
  /\ flattenedView = <<"a", "b", "d">>

\* C17: a refresh with a dataset of the same content as the one the graph
\* was built from leaves the graph and every Node's state unchanged; a
\* refresh with a dataset of different content results in a graph built from
\* the new dataset.
C17_RebuildIffContentDiffers ==
  [][\A incoming \in Datasets :
       DataRefresh(incoming)
         => /\ incoming = localData => UNCHANGED <<treeVars, localData>>
            /\ incoming # localData
                 => /\ localData' = incoming
                    /\ Tree' = NewTreeView(lazy, FALSE)]_vars

=============================================================================
